---------------------------- MODULE Spec2Model ----------------------------
(***************************************************************************)
(* The publish/subscribe dispatch core of the repository:                  *)
(* CustomEventEmitter (on / once / off / emit), a registry                 *)
(* Map<eventName, Array<listener>> with synchronous, re-entrant dispatch   *)
(* over a snapshot of the listener array.                                  *)
(*                                                                         *)
(* Listener bodies are arbitrary user code: a running listener may call    *)
(* on, once, off and emit on the emitter any number of times, and then     *)
(* returns or throws.  The call stack of emit calls in progress is the     *)
(* variable stack; the callers of the public methods are the top level     *)
(* (empty stack) and the listener that is running on top of the stack.     *)
(***************************************************************************)
EXTENDS Naturals, Sequences, FiniteSets

\* Event names and user handler functions used by the callers.
Events == {"e1", "e2"}
Handlers == {"A", "B"}

\* Total number of on/once calls in one run.
MaxReg == 2
\* Number of emit calls that may be nested on the call stack.
MaxDepth == 2

VARIABLES
  subscriptions,  \* this.subscriptions: event name -> array of listener entries
  stack,          \* emit calls in progress, innermost last
  nextReg,        \* number of the next on/once call (names the entry it stores)
  ret,            \* result that a call is handing back to its caller, if any
  fired,          \* history: per one-shot entry, how often its handler was called
  removedBy,      \* history: per entry, whose off call spliced it out
  inputs,         \* what the user code of this run calls the emitter with
  skipped,        \* history: the snapshot entries that the emit call which a
                  \* listener has just aborted by throwing did not get to
  plain           \* this.subscriptions of an EventEmitter (the class without
                  \* once) that is given the same calls, where a run has one

vars == <<subscriptions, stack, nextReg, ret, fired, removedBy, inputs, skipped,
          plain>>

\* The runs of the mixed scenario begin after its three registrations and
\* make up to MaxReg more.
ScenarioRegs == MaxReg + 3

RegIds == 1..ScenarioRegs

\* Values of removedBy[id]: the entry was never removed; user code removed it
\* with off (a persistent entry, or a one-shot entry through the original
\* handler); the off call of its own one-shot wrapper removed it; the off call
\* of the wrapper of another entry removed it.
NotRemoved == "no"
ByUser == "user"
ByOriginal == "original"
ByItself == "itself"
ByOtherWrapper == "other"

\* The entries that off has spliced out of the registry so far.
removed == {id \in RegIds : removedBy[id] # NotRemoved}

-----------------------------------------------------------------------------
(* Function values.  A user function h is Fn(h).  The closure that the     *)
(* reg-th registration call (a once call) creates is Wrapper of its entry; *)
(* it carries the property originalFunction.                               *)

Undefined == [f |-> "undefined", w |-> 0]

Fn(h) == [f |-> h, w |-> 0]

\* An entry of a listener array: handler f, registered by on (once = FALSE)
\* or by once (once = TRUE), by registration call number reg.
Entry(h, isOnce, reg) == [f |-> h, once |-> isOnce, reg |-> reg]

\* const wrapperFunction = (...args) => {...}: a fresh closure per once call.
wrapperFunction(l) == [f |-> l.f, w |-> l.reg]

\* The callable that the array holds for entry l.
Stored(l) == IF l.once THEN wrapperFunction(l) ELSE Fn(l.f)

\* l.originalFunction: set on wrappers only.
originalFunction(l) == IF l.once THEN Fn(l.f) ELSE Undefined

\* The emitter instance: the value of `this` in its methods.
Emitter == "emitter"

\* The argument lists that emit is called with: emit(e, 42) and emit(e, 7, 8).
Args == {<<42>>, <<7, 8>>}

\* A variant of the wrapper that calls the handler bare (listener()).
wrapperCallBare(thisArg, args) == [this |-> "undefined", args |-> <<>>]

\* listener.call(this, ...args) in the wrapper: what the handler is run with.
wrapperCall(thisArg, args) == [this |-> thisArg, args |-> args]

\* l.call(this, ...args) in emit: what the handler of entry l is run with.
\* The wrapper is an arrow function: it takes the arguments of the call as
\* ...args, and its `this` is the emitter that once was called on.
call(l, thisArg, args) ==
  IF l.once THEN wrapperCall(Emitter, args)
            ELSE [this |-> thisArg, args |-> args]

Ids(listeners) == {listeners[j].reg : j \in 1..Len(listeners)}

PosOf(listeners, id) == CHOOSE j \in 1..Len(listeners) : listeners[j].reg = id

-----------------------------------------------------------------------------
(* The registry operations, as functions of the Map.                       *)

\* Map.set(eventName, [])
MapSet(subs, e, listeners) ==
  [x \in (DOMAIN subs) \cup {e} |-> IF x = e THEN listeners ELSE subs[x]]

\* A variant of the key removal that empties the whole Map (clear for delete).
MapClear(subs, e) == [x \in {} |-> <<>>]

\* Map.delete(eventName)
MapDelete(subs, e) == [x \in (DOMAIN subs) \ {e} |-> subs[x]]

\* A variant of the lookup that makes up an empty array for a missing key
\* (this.subscriptions.get(eventName) || []).
getOrEmpty(subs, e) == IF e \in DOMAIN subs THEN {subs[e]} ELSE {<<>>}

\* this.subscriptions.get(eventName): the set holding the array of e, or the
\* empty set for undefined.
get(subs, e) == IF e \in DOMAIN subs THEN {subs[e]} ELSE {}

\* A variant of on that puts the listener in front (unshift for push).
onUnshift(subs, e, l) ==
  LET base == IF e \in DOMAIN subs THEN subs ELSE MapSet(subs, e, <<>>)
  IN  [base EXCEPT ![e] = <<l>> \o @]

\* A variant of on without the has test, which sets a new array at every call.
onReset(subs, e, l) == MapSet(subs, e, <<l>>)

\* on(eventName, listener): create the array when absent, then push.
on(subs, e, l) ==
  LET base == IF e \in DOMAIN subs THEN subs ELSE MapSet(subs, e, <<>>)
  IN  [base EXCEPT ![e] = Append(@, l)]

\* A variant of the findIndex predicate that compares the handlers behind the
\* two callables, whichever wrapper they are in.
MatchesHandler(l, listener) == l.f = listener.f

\* A variant of the findIndex predicate without the originalFunction test
\* (the indexOf of the plain EventEmitter).
MatchesStored(l, listener) == Stored(l) = listener

\* (l) => l === listener || l.originalFunction === listener
Matches(l, listener) == Stored(l) = listener \/ originalFunction(l) = listener

\* A variant of the search that gives the last matching position (findLastIndex).
findLastIndex(listeners, listener) ==
  LET hits == {j \in 1..Len(listeners) : Matches(listeners[j], listener)}
  IN  IF hits = {} THEN 0 ELSE CHOOSE j \in hits : \A k \in hits : j >= k

\* listeners.findIndex(...): first matching position, 0 for JavaScript's -1.
findIndex(listeners, listener) ==
  LET hits == {j \in 1..Len(listeners) : Matches(listeners[j], listener)}
  IN  IF hits = {} THEN 0 ELSE CHOOSE j \in hits : \A k \in hits : j <= k

\* A variant of splice without the delete count (listeners.splice(idx)), which
\* takes out everything from idx on.
spliceFrom(listeners, idx) == SubSeq(listeners, 1, idx - 1)

\* listeners.splice(idx, 1)
splice(listeners, idx) ==
  [j \in 1..(Len(listeners) - 1) |->
     IF j < idx THEN listeners[j] ELSE listeners[j + 1]]

\* A variant of off that takes out every matching entry (filter for splice).
offAll(subs, e, listener) ==
  IF e \notin DOMAIN subs THEN subs
  ELSE LET Keep(l) == ~Matches(l, listener)
           after == SelectSeq(subs[e], Keep)
       IN  IF Len(after) = 0 THEN MapDelete(subs, e)
           ELSE [subs EXCEPT ![e] = after]

\* A variant of off without the idx !== -1 test: splice(-1, 1) takes out the
\* last entry of the array.
offUnguarded(subs, e, listener) ==
  IF e \notin DOMAIN subs THEN subs
  ELSE LET listeners == subs[e]
           idx == findIndex(listeners, listener)
           after == IF idx # 0 THEN splice(listeners, idx)
                    ELSE SubSeq(listeners, 1, Len(listeners) - 1)
       IN  IF Len(after) = 0 THEN MapDelete(subs, e)
           ELSE [subs EXCEPT ![e] = after]

\* A variant of off that leaves the key in the Map when its array gets empty.
offKeepKey(subs, e, listener) ==
  IF e \notin DOMAIN subs THEN subs
  ELSE LET listeners == subs[e]
           idx == findIndex(listeners, listener)
           after == IF idx # 0 THEN splice(listeners, idx) ELSE listeners
       IN  [subs EXCEPT ![e] = after]

\* off(eventName, listener)
off(subs, e, listener) ==
  IF e \notin DOMAIN subs THEN subs
  ELSE LET listeners == subs[e]
           idx == findIndex(listeners, listener)
           after == IF idx # 0 THEN splice(listeners, idx) ELSE listeners
       IN  IF Len(after) = 0 THEN MapDelete(subs, e)
           ELSE [subs EXCEPT ![e] = after]

\* A variant of the wrapper that calls the handler without removing itself first.
wrapperOffSkipped(subs, e, l) == subs

\* listeners.indexOf(listener) of the plain EventEmitter: the first position
\* that holds this very function, 0 for JavaScript's -1.
indexOf(listeners, listener) ==
  LET hits == {j \in 1..Len(listeners) : Stored(listeners[j]) = listener}
  IN  IF hits = {} THEN 0 ELSE CHOOSE j \in hits : \A k \in hits : j <= k

\* EventEmitter.off(eventName, listener)
EventEmitter_off(subs, e, listener) ==
  IF e \notin DOMAIN subs THEN subs
  ELSE LET listeners == subs[e]
           index == indexOf(listeners, listener)
           after == IF index # 0 THEN splice(listeners, index) ELSE listeners
       IN  IF Len(after) = 0 THEN MapDelete(subs, e)
           ELSE [subs EXCEPT ![e] = after]

\* A variant of the wrapper that removes by the handler it wraps
\* (this.off(eventName, listener)).
wrapperOffByListener(subs, e, l) == off(subs, e, Fn(l.f))

\* The first statement of a one-shot wrapper: this.off(eventName, wrapperFunction).
wrapperOff(subs, e, l) == off(subs, e, wrapperFunction(l))

\* A variant of emit that walks the live array of the registry by index.
ListenersLive(fr, subs) == IF fr.ev \in DOMAIN subs THEN subs[fr.ev] ELSE <<>>

\* The array that emit's forEach walks: the copy taken when emit was called.
ListenersVisited(fr, subs) == fr.snapshot

-----------------------------------------------------------------------------
(* History bookkeeping.                                                    *)

\* The entry that off(e, listener) takes out of the registry, as a set.
Target(subs, e, listener) ==
  IF e \notin DOMAIN subs THEN {}
  ELSE LET idx == findIndex(subs[e], listener)
       IN  IF idx = 0 THEN {} ELSE {subs[e][idx]}

\* Record a removal from e's array in every emit(e) in progress whose
\* array at call time held the removed entry: behind the listener that the
\* emit is at (offLater), or at or before it (offEarlier).
NoteOff(stk, e, gone) ==
  IF Len(stk) = 0 THEN stk ELSE
  [d \in 1..Len(stk) |->
     LET fr == stk[d]
         mine == IF fr.ev = e THEN {l.reg : l \in gone} \cap Ids(fr.snapshot)
                 ELSE {}
     IN  [fr EXCEPT
            !.offLater = @ \cup {id \in mine : PosOf(fr.snapshot, id) > fr.i},
            !.offEarlier = @ \cup {id \in mine : PosOf(fr.snapshot, id) <= fr.i}]]

\* Record that user code removed the entries gone.
NoteRemoved(by, gone) ==
  [id \in RegIds |->
     IF \E l \in gone : l.reg = id /\ l.once THEN ByOriginal
     ELSE IF \E l \in gone : l.reg = id THEN ByUser
     ELSE by[id]]

\* Record that the wrapper of entry w removed the entries gone.
NoteSelfRemoved(by, gone, w) ==
  [id \in RegIds |->
     IF \A l \in gone : l.reg # id THEN by[id]
     ELSE IF id = w THEN ByItself ELSE ByOtherWrapper]

\* Record a subscription to e in every emit(e) in progress.
NoteOn(stk, e, id) ==
  IF Len(stk) = 0 THEN stk ELSE
  [d \in 1..Len(stk) |->
     IF stk[d].ev = e THEN [stk[d] EXCEPT !.added = @ \cup {id}] ELSE stk[d]]

-----------------------------------------------------------------------------
Top == stack[Len(stack)]

\* forEach has called every listener of the array it walks and the last one
\* has returned: the emit call fr is about to return true.
Done(fr) == ~fr.running /\ fr.i >= Len(ListenersVisited(fr, subscriptions))

\* No result is on its way to a caller.
NoResult == "none"

\* User code runs: the top level or the listener that emit has called, once it
\* has taken the result of the call it made last.
CanCall == ret = NoResult /\ (IF Len(stack) = 0 THEN TRUE ELSE Top.running)

Init ==
  /\ subscriptions = [x \in {} |-> <<>>]
  /\ stack = <<>>
  /\ nextReg = 1
  /\ ret = NoResult
  /\ fired = [id \in RegIds |-> 0]
  /\ removedBy = [id \in RegIds |-> NotRemoved]
  /\ skipped = {}
  /\ plain = [x \in {} |-> <<>>]
  /\ inputs = [events |-> Events, emitted |-> Events, handlers |-> Handlers,
               args |-> {<<42>>}, regs |-> MaxReg, depth |-> MaxDepth]

\* emitter.on(e, h)
CallOn(e, h) ==
  /\ CanCall
  /\ nextReg <= inputs.regs
  /\ subscriptions' = on(subscriptions, e, Entry(h, FALSE, nextReg))
  /\ stack' = NoteOn(stack, e, nextReg)
  /\ nextReg' = nextReg + 1
  /\ ret' = "this"
  /\ UNCHANGED <<fired, removedBy, inputs, skipped, plain>>

\* emitter.once(e, h): this.on(eventName, wrapperFunction)
CallOnce(e, h) ==
  /\ CanCall
  /\ nextReg <= inputs.regs
  /\ subscriptions' = on(subscriptions, e, Entry(h, TRUE, nextReg))
  /\ stack' = NoteOn(stack, e, nextReg)
  /\ nextReg' = nextReg + 1
  /\ ret' = "this"
  /\ UNCHANGED <<fired, removedBy, inputs, skipped, plain>>

\* emitter.off(e, h) with a user function h
CallOff(e, h) ==
  /\ CanCall
  /\ subscriptions' = off(subscriptions, e, Fn(h))
  /\ stack' = NoteOff(stack, e, Target(subscriptions, e, Fn(h)))
  /\ removedBy' = NoteRemoved(removedBy, Target(subscriptions, e, Fn(h)))
  /\ ret' = "this"
  /\ UNCHANGED <<nextReg, fired, inputs, skipped, plain>>

\* emitter.emit(e) when e is not a key: return false
EmitAbsent(e) ==
  /\ CanCall
  /\ get(subscriptions, e) = {}
  /\ ret' = "false"
  /\ UNCHANGED <<subscriptions, stack, nextReg, fired, removedBy, inputs, skipped, plain>>

\* emitter.emit(e, ...args) when e is a key: const snapshot = [...listeners]
EmitStart(e, args) ==
  /\ CanCall
  /\ get(subscriptions, e) # {}
  /\ Len(stack) < inputs.depth
  /\ stack' = Append(stack,
       [ev |-> e, snapshot |-> CHOOSE listeners \in get(subscriptions, e) : TRUE,
        args |-> args, i |-> 0, running |-> FALSE, invoked |-> <<>>,
        received |-> <<>>,
        offLater |-> {}, offEarlier |-> {}, added |-> {},
        goneAtCall |-> removed])
  /\ UNCHANGED <<subscriptions, nextReg, ret, fired, removedBy, inputs, skipped, plain>>

\* snapshot.forEach: l.call(this, ...args) for the next listener.  A
\* one-shot wrapper first takes itself out of the registry and then calls
\* the handler, which is running when the step ends.
Invoke ==
  /\ Len(stack) > 0
  /\ ~Top.running
  /\ Top.i < Len(ListenersVisited(Top, subscriptions))
  /\ LET l == ListenersVisited(Top, subscriptions)[Top.i + 1]
         d == Len(stack)
         stepped == [stack EXCEPT ![d].i = @ + 1, ![d].running = TRUE,
                                  ![d].invoked = Append(@, l),
                                  ![d].received =
                                    Append(@, call(l, Emitter, Top.args))]
     IN  IF l.once
         THEN /\ subscriptions' = wrapperOff(subscriptions, Top.ev, l)
              /\ stack' = NoteOff(stepped, Top.ev,
                             Target(subscriptions, Top.ev, wrapperFunction(l)))
              /\ removedBy' = NoteSelfRemoved(removedBy,
                             Target(subscriptions, Top.ev, wrapperFunction(l)),
                             l.reg)
              /\ fired' = [fired EXCEPT ![l.reg] = @ + 1]
         ELSE /\ stack' = stepped
              /\ UNCHANGED <<subscriptions, removedBy, fired>>
  /\ UNCHANGED <<nextReg, ret, inputs, skipped, plain>>

\* The running listener returns.
Return ==
  /\ Len(stack) > 0
  /\ CanCall
  /\ stack' = [stack EXCEPT ![Len(stack)].running = FALSE]
  /\ UNCHANGED <<subscriptions, nextReg, ret, fired, removedBy, inputs, skipped, plain>>

\* A variant of emit that isolates a failing listener and goes on with the
\* next one (try { l.call(this, ...args) } catch (err) {}).
afterThrowCaught(stk) == [stk EXCEPT ![Len(stk)].running = FALSE]

\* The call stack after the listener that the innermost emit is running has
\* thrown: forEach and emit have no try/catch, so the emit call is over.
afterThrow(stk) == SubSeq(stk, 1, Len(stk) - 1)

\* The running listener throws: emit has no try/catch, the call is abandoned.
Throw ==
  /\ Len(stack) > 0
  /\ CanCall
  /\ stack' = afterThrow(stack)
  /\ ret' = "threw"
  /\ skipped' = Ids(Top.snapshot) \ Ids(Top.invoked)
  /\ UNCHANGED <<subscriptions, nextReg, fired, removedBy, inputs, plain>>

\* A variant of emit's last statement that answers from the registry as it is
\* after the dispatch (return this.subscriptions.has(eventName)).
returnValueLive(fr, subs) == IF fr.ev \in DOMAIN subs THEN "true" ELSE "false"

\* return true: the last statement of emit.
returnValue(fr, subs) == "true"

\* forEach is through: return true
EmitReturn ==
  /\ Len(stack) > 0
  /\ Done(Top)
  /\ stack' = SubSeq(stack, 1, Len(stack) - 1)
  /\ ret' = returnValue(Top, subscriptions)
  /\ UNCHANGED <<subscriptions, nextReg, fired, removedBy, inputs, skipped, plain>>

\* The caller takes the result of its call and goes on.
Resume ==
  /\ ret # NoResult
  /\ ret' = NoResult
  /\ skipped' = {}
  /\ UNCHANGED <<subscriptions, stack, nextReg, fired, removedBy, inputs, plain>>

Next ==
  \/ \E e \in inputs.events, h \in inputs.handlers : CallOn(e, h)
  \/ \E e \in inputs.events, h \in inputs.handlers : CallOnce(e, h)
  \/ \E e \in inputs.events, h \in inputs.handlers : CallOff(e, h)
  \/ \E e \in inputs.emitted : EmitAbsent(e)
  \/ \E e \in inputs.emitted, args \in inputs.args : EmitStart(e, args)
  \/ Invoke
  \/ Return
  \/ Throw
  \/ EmitReturn
  \/ Resume

Spec == Init /\ [][Next]_vars

\* Runs on one event in which emit is called with either argument list.
InitArgs ==
  /\ subscriptions = [x \in {} |-> <<>>]
  /\ stack = <<>>
  /\ nextReg = 1
  /\ ret = NoResult
  /\ fired = [id \in RegIds |-> 0]
  /\ removedBy = [id \in RegIds |-> NotRemoved]
  /\ skipped = {}
  /\ plain = [x \in {} |-> <<>>]
  /\ inputs = [events |-> {"e1"}, emitted |-> {"e1"}, handlers |-> Handlers,
               args |-> Args, regs |-> MaxReg, depth |-> MaxDepth]

SpecArgs == InitArgs /\ [][Next]_vars

\* Runs in which no listener calls emit and every listener that emit calls
\* comes to its end: it returns or throws after finitely many calls of on,
\* once and off.  forEach is synchronous: it goes on to the next entry as soon
\* as a listener has returned, and emit returns as soon as forEach is through.
InitDispatch ==
  /\ subscriptions = [x \in {} |-> <<>>]
  /\ stack = <<>>
  /\ nextReg = 1
  /\ ret = NoResult
  /\ fired = [id \in RegIds |-> 0]
  /\ removedBy = [id \in RegIds |-> NotRemoved]
  /\ skipped = {}
  /\ plain = [x \in {} |-> <<>>]
  /\ inputs = [events |-> Events, emitted |-> Events, handlers |-> Handlers,
               args |-> {<<42>>}, regs |-> MaxReg, depth |-> 1]

SpecDispatch ==
  /\ InitDispatch
  /\ [][Next]_vars
  /\ WF_vars(Invoke)
  /\ WF_vars(EmitReturn)
  /\ WF_vars(Resume)
  /\ SF_vars(Return)

\* Runs of a CustomEventEmitter and an EventEmitter side by side: the user
\* code makes every on and off call on both and never calls once; off is
\* called with a function or with undefined (off(e) without a listener).
\* The calls of emit and of the listeners are those of the CustomEventEmitter.
OffArguments == Handlers \cup {Undefined.f}

BothOn(e, h) ==
  /\ CanCall
  /\ nextReg <= inputs.regs
  /\ subscriptions' = on(subscriptions, e, Entry(h, FALSE, nextReg))
  /\ plain' = on(plain, e, Entry(h, FALSE, nextReg))
  /\ stack' = NoteOn(stack, e, nextReg)
  /\ nextReg' = nextReg + 1
  /\ ret' = "this"
  /\ UNCHANGED <<fired, removedBy, inputs, skipped>>

BothOff(e, h) ==
  /\ CanCall
  /\ subscriptions' = off(subscriptions, e, Fn(h))
  /\ plain' = EventEmitter_off(plain, e, Fn(h))
  /\ stack' = NoteOff(stack, e, Target(subscriptions, e, Fn(h)))
  /\ removedBy' = NoteRemoved(removedBy, Target(subscriptions, e, Fn(h)))
  /\ ret' = "this"
  /\ UNCHANGED <<nextReg, fired, inputs, skipped>>

InitBoth == Init

NextBoth ==
  \/ \E e \in inputs.events, h \in inputs.handlers : BothOn(e, h)
  \/ \E e \in inputs.events, h \in OffArguments : BothOff(e, h)
  \/ \E e \in inputs.emitted : EmitAbsent(e)
  \/ \E e \in inputs.emitted, args \in inputs.args : EmitStart(e, args)
  \/ Invoke
  \/ Return
  \/ Throw
  \/ EmitReturn
  \/ Resume

SpecBoth == InitBoth /\ [][NextBoth]_vars

\* The registry that on(x, A), on(x, B), once(x, C) leave in a new emitter,
\* x being the event e1.
MixedEntries == <<Entry("A", FALSE, 1), Entry("B", FALSE, 2), Entry("C", TRUE, 3)>>

MixedRegistry ==
  on(on(on([x \in {} |-> <<>>], "e1", MixedEntries[1]),
        "e1", MixedEntries[2]),
     "e1", MixedEntries[3])

\* Runs of the mixed scenario: the three registrations have been made, and
\* the user code goes on with any emit calls and with on, once and off calls
\* for C on the same event.
InitMixed ==
  /\ subscriptions = MixedRegistry
  /\ stack = <<>>
  /\ nextReg = 4
  /\ ret = NoResult
  /\ fired = [id \in RegIds |-> 0]
  /\ removedBy = [id \in RegIds |-> NotRemoved]
  /\ skipped = {}
  /\ plain = [x \in {} |-> <<>>]
  /\ inputs = [events |-> {"e1"}, emitted |-> Events, handlers |-> {"C"},
               args |-> {<<42>>}, regs |-> ScenarioRegs - 1, depth |-> MaxDepth]

SpecMixed == InitMixed /\ [][Next]_vars

-----------------------------------------------------------------------------
(* Properties of the dispatch core.                                        *)

Depths == 1..Len(stack)

\* The listener that emit call fr has called last (and that is running, if any is).
Current(fr) == fr.invoked[Len(fr.invoked)]

Increasing(listeners) ==
  \A p, q \in 1..Len(listeners) : p < q => listeners[p].reg < listeners[q].reg

Registered == UNION {Ids(subscriptions[e]) : e \in DOMAIN subscriptions}

\* An emit call never calls an entry that off had removed before the call began.
NeverAfterRemoval == \A d \in Depths : Ids(stack[d].invoked) \cap stack[d].goneAtCall = {}

\* C1 (snapshot rule): every emit call in progress has called exactly the
\* first entries of the array as it was when emit was called, each once and in
\* place, and an emit call that is about to return true has called all of them,
\* whatever on, once and off calls its listeners made meanwhile.
C1_SnapshotRule ==
  \A d \in Depths :
    LET fr == stack[d]
    IN  /\ fr.i <= Len(fr.snapshot)
        /\ fr.invoked = SubSeq(fr.snapshot, 1, fr.i)
        /\ Done(fr) => fr.invoked = fr.snapshot

\* A two-listener emit is through although its first listener removed both
\* entries from the registry while it was running.
C1_Witness ==
  \E d \in Depths :
    /\ Done(stack[d])
    /\ Len(stack[d].invoked) = 2
    /\ stack[d].offLater # {}
    /\ stack[d].offEarlier # {}
    /\ Registered = {}

\* C2 (ordering): the array of every event is in subscription order, whether
\* its entries came from on or from once, and every emit call calls its
\* listeners in subscription order: an entry is never called before one that
\* was subscribed earlier, and a finished emit has called all of them.
C2_Ordering ==
  /\ \A e \in DOMAIN subscriptions : Increasing(subscriptions[e])
  /\ \A d \in Depths :
       /\ Increasing(stack[d].invoked)
       /\ Done(stack[d]) => Ids(stack[d].invoked) = Ids(stack[d].snapshot)
       /\ \A p \in 1..Len(stack[d].invoked) :
            \A id \in Ids(stack[d].snapshot) :
              id < stack[d].invoked[p].reg => id \in Ids(SubSeq(stack[d].invoked, 1, p))

\* An emit has called a persistent and a one-shot listener, in that order of
\* subscription or the other.
C2_Witness ==
  \E d \in Depths :
    /\ Done(stack[d])
    /\ Len(stack[d].invoked) = 2
    /\ stack[d].invoked[1].once # stack[d].invoked[2].once

\* C3 (snapshot isolation): an entry that was removed with off while an
\* earlier listener of the same emit was running is still called by that emit
\* when its turn comes, it is out of the registry, and no emit call that began
\* after the removal calls it.
C3_SnapshotIsolation ==
  /\ \A d \in Depths :
       LET fr == stack[d]
       IN  /\ \A id \in fr.offLater :
                PosOf(fr.snapshot, id) <= fr.i => id \in Ids(fr.invoked)
           /\ Done(fr) => fr.offLater \subseteq Ids(fr.invoked)
           /\ fr.offLater \cap Registered = {}
  /\ \A d1, d2 \in Depths :
       d1 < d2 =>
         stack[d1].offLater \cap stack[d2].goneAtCall \cap Ids(stack[d2].invoked) = {}
  /\ NeverAfterRemoval

\* A later listener was removed by an earlier one, the first emit called it
\* all the same, and a second emit of the event that began after the removal is
\* through without it.
C3_Witness ==
  \E d1, d2 \in Depths :
    /\ d1 < d2
    /\ stack[d1].ev = stack[d2].ev
    /\ \E id \in stack[d1].offLater :
         /\ id \in Ids(stack[d1].invoked)
         /\ id \in stack[d2].goneAtCall
    /\ Done(stack[d2])

\* C4 (no skip): when a listener removed itself or an earlier listener of the
\* emit in progress, the emit still calls every entry of its array in order,
\* up to the last one, and no emit call that began after the removal calls the
\* removed entry.
C4_NoSkip ==
  /\ \A d \in Depths :
       LET fr == stack[d]
       IN  fr.offEarlier # {} =>
             /\ Len(fr.invoked) <= Len(fr.snapshot)
             /\ fr.invoked = SubSeq(fr.snapshot, 1, Len(fr.invoked))
             /\ ~fr.running /\ Len(fr.invoked) < Len(fr.snapshot) => ~Done(fr)
             /\ Done(fr) => Len(fr.invoked) = Len(fr.snapshot)
             /\ fr.offEarlier \cap Registered = {}
  /\ \A d1, d2 \in Depths :
       d1 < d2 =>
         stack[d1].offEarlier \cap stack[d2].goneAtCall \cap Ids(stack[d2].invoked) = {}
  /\ NeverAfterRemoval

\* The first of two listeners removed itself with off and the emit has called
\* the second one too.
C4_Witness ==
  \E d \in Depths :
    /\ Done(stack[d])
    /\ Len(stack[d].invoked) = 2
    /\ stack[d].invoked[1].reg \in stack[d].offEarlier
    /\ ~stack[d].invoked[1].once

\* C5 (added during dispatch): an entry subscribed to e while an emit of e is
\* in progress is not called by that emit; it is in the registry unless removed
\* since, and an emit of e that began after the subscription has it in its
\* array and has called it when it is through.
C5_AddedDuringDispatch ==
  /\ \A d \in Depths :
       LET fr == stack[d]
       IN  /\ fr.added \cap Ids(fr.invoked) = {}
           /\ fr.added \cap Ids(fr.snapshot) = {}
           /\ \A id \in fr.added \ removed :
                fr.ev \in DOMAIN subscriptions /\ id \in Ids(subscriptions[fr.ev])
  /\ \A d1, d2 \in Depths :
       (d1 < d2 /\ stack[d1].ev = stack[d2].ev) =>
         LET before == stack[d1].added \ (stack[d2].added \cup stack[d2].goneAtCall)
         IN  /\ before \subseteq Ids(stack[d2].snapshot)
             /\ Done(stack[d2]) => before \subseteq Ids(stack[d2].invoked)

\* A listener subscribed an entry during an emit, which has not called it, and
\* a further emit of the same event has called it.
C5_Witness ==
  \E d1, d2 \in Depths :
    /\ d1 < d2
    /\ stack[d1].ev = stack[d2].ev
    /\ \E id \in stack[d1].added : id \in Ids(stack[d2].invoked)
    /\ Done(stack[d2])

\* C6 (self-removal idempotence): the handler of a once registration is called
\* at most once, however the emit calls are nested.
C6_OneShotOnce == \A id \in RegIds : fired[id] <= 1

\* C7 (removal precedes invocation): while the handler of a one-shot entry is
\* running, its wrapper is not in the registry and is in the array of no emit
\* that the handler (or code it called) has started; if the wrapper was the
\* only entry of the event and nothing was subscribed since, the event is not
\* a key, so that an emit of it from inside the handler returns false.
C7_RemovalPrecedesInvocation ==
  \A d \in Depths :
    LET fr == stack[d]
    IN  (fr.running /\ Current(fr).once) =>
          /\ Current(fr).reg \notin Registered
          /\ \A d2 \in Depths : d2 > d => Current(fr).reg \notin Ids(stack[d2].snapshot)
          /\ (Len(fr.snapshot) = 1 /\ fr.added = {}) => fr.ev \notin DOMAIN subscriptions

\* The handler of the only registration ever made, a one-shot, is running and
\* an emit that it issued has returned false.
C7_Witness ==
  /\ Len(stack) = 1
  /\ nextReg = 2
  /\ Top.running
  /\ Current(Top).once
  /\ ret = "false"

\* C8 (removed exactly once): the off call of a one-shot wrapper never takes an
\* entry other than the wrapper itself out of the registry, and once the
\* wrapper has been called it is out of the registry, removed by itself or
\* before by user code; a further call of the same wrapper removes nothing.
C8_RemovedOnce ==
  \A id \in RegIds :
    /\ removedBy[id] # ByOtherWrapper
    /\ fired[id] >= 1 =>
         /\ id \notin Registered
         /\ removedBy[id] \in {ByItself, ByOriginal}

\* The same wrapper has been called from two snapshots while another entry
\* stayed registered.
C8_Witness ==
  \E id \in RegIds :
    /\ fired[id] = 2
    /\ removedBy[id] = ByItself
    /\ Registered # {}

\* The entries of e whose handler is h.
EntriesOf(subs, e, h) ==
  IF e \in DOMAIN subs THEN {j \in 1..Len(subs[e]) : subs[e][j].f = h} ELSE {}

\* C9 (identity-based removal): when h is registered for e only as a pending
\* one-shot, off(e, h) with the original handler removes the wrapper, so that
\* no entry of e calls h afterwards.
C9_IdentityBasedRemoval ==
  [][\A e \in Events, h \in Handlers :
       (/\ Cardinality(EntriesOf(subscriptions, e, h)) = 1
        /\ \A j \in EntriesOf(subscriptions, e, h) : subscriptions[e][j].once
        /\ CallOff(e, h))
       => /\ EntriesOf(subscriptions', e, h) = {}
          /\ \A j \in EntriesOf(subscriptions, e, h) :
               removedBy'[subscriptions[e][j].reg] = ByOriginal]_vars

\* A pending one-shot was removed through its original handler before it ever
\* fired, and a later emit returned false.
C9_Witness ==
  /\ Len(stack) = 0
  /\ nextReg = 2
  /\ removedBy[1] = ByOriginal
  /\ fired[1] = 0
  /\ ret = "false"

\* C10 (no empty key): every key of the registry maps to a non-empty array, in
\* every state, also inside listeners and after an emit that a listener
\* aborted; an emit call that got past the lookup has a non-empty snapshot, so
\* an event whose last listener was removed gives false.
C10_NoEmptyKey ==
  /\ \A e \in DOMAIN subscriptions : Len(subscriptions[e]) > 0
  /\ \A d \in Depths : Len(stack[d].snapshot) > 0

\* Listeners were registered and all of them removed again, the registry has
\* no key, and an emit after that returned false.
C10_Witness ==
  /\ Len(stack) = 0
  /\ removed # {}
  /\ Registered = {}
  /\ DOMAIN subscriptions = {}
  /\ ret = "false"

\* The positions of listeners that hold handler h.
Holding(listeners, h) == {j \in 1..Len(listeners) : listeners[j].f = h}

\* C11 (duplicate registration): the registry keeps every entry that on or once
\* stored until an off call takes that very entry out, so two registrations of
\* one handler are two entries and one off call removes one of them; an emit
\* that is through has called a handler as many times as its array held it.
C11_DuplicateRegistration ==
  /\ \A id \in RegIds :
       id < nextReg => (removedBy[id] = NotRemoved <=> id \in Registered)
  /\ \A e \in DOMAIN subscriptions :
       Cardinality(Ids(subscriptions[e])) = Len(subscriptions[e])
  /\ \A d \in Depths : \A h \in Handlers :
       Done(stack[d]) =>
         Cardinality(Holding(stack[d].invoked, h))
           = Cardinality(Holding(stack[d].snapshot, h))

\* A handler was registered twice with on and an emit has called it twice; its
\* second call removed one entry with off, and an emit begun after that is
\* through having called the handler once.
C11_Witness ==
  /\ Len(stack) = 2
  /\ stack[1].ev = stack[2].ev
  /\ Len(stack[1].invoked) = 2
  /\ ~stack[1].invoked[1].once /\ ~stack[1].invoked[2].once
  /\ stack[1].invoked[1].f = stack[1].invoked[2].f
  /\ removedBy[1] = ByUser /\ removedBy[2] = NotRemoved
  /\ Done(stack[2])
  /\ Len(stack[2].invoked) = 1

\* The array listeners without its position m.
Without(listeners, m) ==
  [j \in 1..(Len(listeners) - 1) |-> IF j < m THEN listeners[j] ELSE listeners[j + 1]]

\* C12 (first match): off(e, h) takes out of e's array the earliest entry that
\* holds h, be it the function itself stored by on or the wrapper that once
\* stored for it, and nothing else; the key goes when that was the only entry.
C12_FirstMatch ==
  [][\A e \in Events, h \in Handlers :
       (/\ e \in DOMAIN subscriptions
        /\ Holding(subscriptions[e], h) # {}
        /\ CallOff(e, h))
       => LET listeners == subscriptions[e]
              m == CHOOSE j \in Holding(listeners, h) :
                     \A k \in Holding(listeners, h) : j <= k
          IN  /\ \A x \in (DOMAIN subscriptions) \ {e} :
                   x \in DOMAIN subscriptions' /\ subscriptions'[x] = subscriptions[x]
              /\ IF Len(listeners) = 1
                 THEN e \notin DOMAIN subscriptions'
                 ELSE /\ e \in DOMAIN subscriptions'
                      /\ subscriptions'[e] = Without(listeners, m)]_vars

\* A handler was registered persistently and then as a one-shot for the same
\* event (both are in the snapshot of the emit in progress); an off call took
\* out the persistent entry, the earlier one, and the one-shot is still pending.
C12_Witness ==
  /\ nextReg = 3
  /\ removedBy[1] = ByUser
  /\ removedBy[2] = NotRemoved
  /\ fired[2] = 0
  /\ ret = "this"
  /\ \E e \in DOMAIN subscriptions :
       /\ Len(subscriptions[e]) = 1
       /\ subscriptions[e][1].once
       /\ subscriptions[e][1].reg = 2
       /\ \A d \in Depths :
            /\ stack[d].ev = e
            /\ Len(stack[d].snapshot) = 2
            /\ stack[d].snapshot[1].f = stack[d].snapshot[2].f
  /\ Len(stack) > 0

C14_EmitAbsent ==
  [][\A e \in Events :
       (/\ e \notin DOMAIN subscriptions
        /\ EmitAbsent(e) \/ \E args \in Args : EmitStart(e, args))
       => /\ ret' = "false"
          /\ UNCHANGED <<subscriptions, stack, fired, removedBy>>]_vars

\* A running listener has got false from an emit of an event without
\* listeners, while the listener's own entry is registered.
C14_Witness ==
  /\ ret = "false"
  /\ Len(stack) = 1
  /\ Top.running
  /\ Registered # {}
  /\ DOMAIN subscriptions # Events

\* C15 (emit result): an emit call for an event that has listeners when it is
\* called starts a dispatch over them and never returns false; a dispatch
\* that is through returns true, whatever is left of the event in the
\* registry, and true is returned by nothing but a dispatch that has called
\* every listener of its non-empty snapshot.
C15_EmitResult ==
  [][/\ \A e \in Events :
          (/\ e \in DOMAIN subscriptions
           /\ EmitAbsent(e) \/ \E args \in Args : EmitStart(e, args))
          => /\ Len(stack') = Len(stack) + 1
             /\ stack'[Len(stack')].snapshot = subscriptions[e]
             /\ Len(subscriptions[e]) >= 1
             /\ ret' = ret
     /\ (Len(stack') < Len(stack) /\ Done(Top)) => ret' = "true"
     /\ (ret' = "true" /\ ret # "true") =>
          /\ Len(stack') < Len(stack)
          /\ Done(Top)
          /\ Len(Top.invoked) >= 1
          /\ Top.invoked = Top.snapshot
     /\ (ret' = "false" /\ ret # "false") =>
          /\ stack' = stack
          /\ DOMAIN subscriptions # Events]_vars

\* The only listener ever registered, a persistent one, took itself out of the
\* registry while the emit was calling it, and the emit has returned true.
C15_Witness ==
  /\ Len(stack) = 0
  /\ ret = "true"
  /\ nextReg = 2
  /\ removedBy[1] = ByUser
  /\ DOMAIN subscriptions = {}

\* C16 (arguments and context): every listener that an emit has called was
\* run with exactly the argument list of that emit and with the emitter as
\* `this`, a handler registered through once included.
C16_ArgumentsAndContext ==
  \A d \in Depths :
    /\ Len(stack[d].received) = Len(stack[d].invoked)
    /\ \A k \in 1..Len(stack[d].received) :
         stack[d].received[k] = [this |-> Emitter, args |-> stack[d].args]

\* A listener of emit(e, 42) has called emit(e, 7, 8), which has called a
\* persistent listener and then a one-shot one.
C16_Witness ==
  /\ Len(stack) = 2
  /\ stack[1].args = <<42>>
  /\ stack[2].args = <<7, 8>>
  /\ Len(stack[1].received) = 1
  /\ Len(stack[2].invoked) = 2
  /\ ~stack[2].invoked[1].once
  /\ stack[2].invoked[2].once
  /\ stack[2].received[2].args = <<7, 8>>

\* The entries of the mixed scenario in the array listeners.
OfScenario(listeners) == SelectSeq(listeners, LAMBDA l : l.reg <= 3)

\* The registry subs without the entry id.
Drop(subs, id) ==
  LET rest(e) == SelectSeq(subs[e], LAMBDA l : l.reg # id)
  IN  [e \in {x \in DOMAIN subs : rest(x) # <<>>} |-> rest(e)]

\* C17 (mixed scenario): after on(x, A), on(x, B), once(x, C), an emit(x, 42)
\* called before any removal calls A, B, C in this order, each with 42; an
\* emit called when the firing of C is the only removal so far calls A then
\* B and not C.  In general every array is in registration order, and the
\* step in which a one-shot entry fires changes the registry by taking out
\* this entry at most, the others keeping their order.
C17_MixedScenario ==
  /\ [](\A d \in Depths :
          LET fr == stack[d]
              mine == OfScenario(fr.invoked)
              expected == IF fr.goneAtCall = {} THEN MixedEntries
                          ELSE SubSeq(MixedEntries, 1, 2)
          IN  (fr.goneAtCall = {} \/ (fr.goneAtCall = {3} /\ removedBy[3] = ByItself))
              => /\ OfScenario(fr.snapshot) = expected
                 /\ Len(mine) <= Len(expected)
                 /\ mine = SubSeq(expected, 1, Len(mine))
                 /\ Done(fr) => mine = expected
                 /\ \A k \in 1..Len(fr.received) : fr.received[k].args = <<42>>)
  /\ [](\A e \in DOMAIN subscriptions : Increasing(subscriptions[e]))
  /\ [][\A id \in RegIds :
          fired'[id] # fired[id]
          => /\ subscriptions' = Drop(subscriptions, id)
             /\ subscriptions' = subscriptions \/ removedBy'[id] = ByItself]_vars

\* The first emit(x, 42) has called A, B and C and is through; C, in its run,
\* has called emit(x, 42) again, and this second emit has called A and B and
\* is through as well; a fourth entry was registered after the second emit
\* began.
C17_Witness ==
  /\ Len(stack) = 2
  /\ stack[1].invoked = MixedEntries
  /\ stack[1].goneAtCall = {}
  /\ stack[2].goneAtCall = {3}
  /\ stack[2].invoked = SubSeq(MixedEntries, 1, 2)
  /\ Done(stack[2])
  /\ fired[3] = 1
  /\ nextReg = 5
  /\ Len(subscriptions["e1"]) = 3

\* C18 (invocation failure): when the listener that an emit is running
\* throws, the emit call is over at once: it hands no value but the exception
\* to its caller, whose own stack of emit calls is as it was, the entries of
\* its snapshot that it had not called yet are never called by it, and the
\* registry stays as the listeners have left it.
C18_InvocationFailure ==
  [][(ret' = "threw" /\ ret # "threw")
     => /\ Len(stack) > 0
        /\ Top.running
        /\ Top.invoked = SubSeq(Top.snapshot, 1, Top.i)
        /\ Len(stack') = Len(stack) - 1
        /\ \A d \in 1..Len(stack') : stack'[d] = stack[d]
        /\ skipped' = {Top.snapshot[k].reg : k \in (Top.i + 1)..Len(Top.snapshot)}
        /\ UNCHANGED <<subscriptions, fired, removedBy>>]_vars

\* The first of two listeners has thrown: the emit call is over, and the
\* second one, a one-shot entry, is still registered and has never been called.
C18_Witness ==
  /\ Len(stack) = 0
  /\ ret = "threw"
  /\ skipped = {2}
  /\ fired[2] = 0
  /\ Registered = {1, 2}
  /\ \E e \in DOMAIN subscriptions :
       /\ Len(subscriptions[e]) = 2
       /\ subscriptions[e][2].once

\* C19 (re-entrant dispatch): an emit called by a listener of an emit in
\* progress takes its own copy of the array as it is at that moment and
\* calls all of it, in order, while the calling listener is still running;
\* nothing in the outer call's snapshot, position or record of calls moves
\* while the nested call is under way, and every call that an emit makes,
\* also after a nested emit, is to the next entry of its own snapshot.
C19_Reentrancy ==
  /\ [](\A d \in Depths :
          /\ d < Len(stack) => stack[d].running
          /\ stack[d].i <= Len(stack[d].snapshot)
          /\ stack[d].invoked = SubSeq(stack[d].snapshot, 1, stack[d].i)
          /\ Ids(stack[d].snapshot) \cap stack[d].goneAtCall = {})
  /\ [][/\ \A d \in 1..(Len(stack) - 1) :
             /\ d <= Len(stack')
             /\ stack'[d].ev = stack[d].ev
             /\ stack'[d].args = stack[d].args
             /\ stack'[d].snapshot = stack[d].snapshot
             /\ stack'[d].i = stack[d].i
             /\ stack'[d].invoked = stack[d].invoked
        /\ (Len(stack) >= 1 /\ Len(stack') = Len(stack) + 1)
             => /\ stack'[Len(stack')].ev \in DOMAIN subscriptions
                /\ stack'[Len(stack')].snapshot =
                     subscriptions[stack'[Len(stack')].ev]
                /\ stack'[Len(stack')].i = 0
                /\ subscriptions' = subscriptions
        /\ (Len(stack) >= 2 /\ Len(stack') < Len(stack) /\ ret' = "true")
             => /\ Top.invoked = Top.snapshot
                /\ stack'[Len(stack')].running
        /\ \A d \in Depths :
             (d <= Len(stack') /\ stack'[d].i # stack[d].i)
             => /\ d = Len(stack)
                /\ stack'[d].snapshot = stack[d].snapshot
                /\ stack'[d].i = stack[d].i + 1
                /\ stack'[d].i <= Len(stack[d].snapshot)
                /\ Current(stack'[d]) = stack[d].snapshot[stack[d].i + 1]]_vars

\* A one-shot entry behind a persistent one has been called twice: by the
\* emit that the persistent listener called while it was running, and then
\* by the outer emit, which went on with the second entry of its snapshot and
\* is through.
C19_Witness ==
  /\ Len(stack) = 1
  /\ Done(stack[1])
  /\ Len(stack[1].invoked) = 2
  /\ ~stack[1].invoked[1].once
  /\ stack[1].invoked[2].once
  /\ fired[2] = 2
  /\ Registered = {1}

\* No on, once or off call, a wrapper's own off included, has touched the
\* array of emit call fr's event since the call began.
Untouched(fr) == fr.added = {} /\ fr.offLater = {} /\ fr.offEarlier = {}

\* C20 (persistent listeners stay): an entry stored by on leaves the registry
\* only in a step that is an off call for its function; the registry changes
\* only in on, once and off calls and in the firing of one-shot entries, so
\* that the array of an emit whose listeners make no such call is as it was
\* when the emit began; and a persistent entry registered since before an
\* emit of its event began is in this emit's snapshot and has been called
\* when the emit is through.
C20_PersistentStay ==
  /\ [](\A d \in Depths :
          LET fr == stack[d]
          IN  /\ Untouched(fr) => /\ fr.ev \in DOMAIN subscriptions
                                  /\ subscriptions[fr.ev] = fr.snapshot
              /\ fr.ev \in DOMAIN subscriptions =>
                   \A j \in 1..Len(subscriptions[fr.ev]) :
                     LET l == subscriptions[fr.ev][j]
                     IN  (~l.once /\ l.reg \notin fr.added)
                         => /\ l.reg \in Ids(fr.snapshot)
                            /\ Done(fr) => l.reg \in Ids(fr.invoked))
  /\ [][/\ \A e \in DOMAIN subscriptions :
             \A j \in 1..Len(subscriptions[e]) :
               LET l == subscriptions[e][j]
               IN  (~l.once /\ l.reg \notin Registered') => CallOff(e, l.f)
        /\ subscriptions' # subscriptions
             => \/ ret = NoResult /\ ret' = "this"
                \/ \E id \in RegIds : fired'[id] # fired[id]]_vars

\* An emit has called its two listeners, both persistent, and is through;
\* no listener has called on, once or off for the event, and the array is the
\* one the emit began with.
C20_Witness ==
  /\ Len(stack) = 1
  /\ Done(Top)
  /\ Untouched(Top)
  /\ Len(Top.invoked) = 2
  /\ \A k \in 1..2 : ~Top.invoked[k].once
  /\ Top.ev \in DOMAIN subscriptions
  /\ subscriptions[Top.ev] = Top.invoked

\* C21 (on appends): a call on(e, h) returns the emitter and puts exactly one
\* new entry for h behind the entries that e has, which stay as they are; when
\* e is not a key, also because off has deleted it before, the key is made
\* with this one entry; the arrays of the other events are unchanged.
C21_OnAppends ==
  [][\A e \in Events, h \in Handlers :
       CallOn(e, h)
       => LET old == IF e \in DOMAIN subscriptions THEN subscriptions[e] ELSE <<>>
          IN  /\ DOMAIN subscriptions' = DOMAIN subscriptions \cup {e}
              /\ subscriptions'[e] = old \o <<Entry(h, FALSE, nextReg)>>
              /\ \A x \in DOMAIN subscriptions \ {e} :
                   subscriptions'[x] = subscriptions[x]
              /\ ret' = "this"]_vars

\* off has removed the only entry and with it the key, and the user code has
\* then called on, which has made the key again with one persistent entry.
C21_Witness ==
  /\ Len(stack) = 0
  /\ ret = "this"
  /\ nextReg = 3
  /\ removedBy[1] # NotRemoved
  /\ removedBy[2] = NotRemoved
  /\ \E e \in DOMAIN subscriptions :
       /\ DOMAIN subscriptions = {e}
       /\ Len(subscriptions[e]) = 1
       /\ ~subscriptions[e][1].once

\* C22 (one-shot under nesting): a one-shot entry that stands behind a
\* persistent listener in the snapshot of an emit has its handler called at
\* most once in all, also when the persistent listener calls emit for the
\* same event while it runs.
C22_OneShotUnderNesting ==
  \A d \in Depths :
    \A k \in 1..Len(stack[d].snapshot) :
      (/\ stack[d].snapshot[k].once
       /\ \E j \in 1..(k - 1) : ~stack[d].snapshot[j].once)
      => fired[stack[d].snapshot[k].reg] <= 1

\* C23 (bounded dispatch): where no listener calls emit and every listener
\* returns, an emit call that has begun comes to its end; the array it walks
\* is the event's array as it was at the call and never changes, whatever
\* the listeners register meanwhile; it calls one entry per step, never more
\* than the array has, and it returns true having called exactly all of them.
C23_BoundedDispatch ==
  /\ [](\A d \in Depths :
          /\ Len(stack[d].invoked) = stack[d].i
          /\ stack[d].i <= Len(stack[d].snapshot))
  /\ [][/\ \A d \in Depths :
             d <= Len(stack') => stack'[d].snapshot = stack[d].snapshot
        /\ Len(stack') > Len(stack)
             => /\ stack'[Len(stack')].ev \in DOMAIN subscriptions
                /\ stack'[Len(stack')].snapshot =
                     subscriptions[stack'[Len(stack')].ev]
                /\ stack'[Len(stack')].invoked = <<>>
        /\ (Len(stack') < Len(stack) /\ ret' = "true")
             => Len(Top.invoked) = Len(Top.snapshot)]_vars
  /\ (Len(stack) > 0) ~> (Len(stack) = 0)

\* The only listener of the event has subscribed itself to the event again
\* while the emit was calling it, and the emit is through after this one call.
C23_Witness ==
  /\ Len(stack) = 1
  /\ Done(Top)
  /\ Len(Top.invoked) = 1
  /\ Top.added = {2}
  /\ Top.ev \in DOMAIN subscriptions
  /\ Len(subscriptions[Top.ev]) = 2
  /\ subscriptions[Top.ev][2].f = Top.invoked[1].f

\* C24 (one-shot handler throws): when the handler of a one-shot entry
\* throws, the entry is out of the registry already; an entry that is out
\* never comes back, and no emit called after an entry went out has it in
\* its snapshot, so that no later emit calls the handler through it.
C24_OneShotThrows ==
  /\ [](\A d \in Depths : Ids(stack[d].snapshot) \cap stack[d].goneAtCall = {})
  /\ [][/\ (ret' = "threw" /\ ret # "threw" /\ Current(Top).once)
             => /\ Current(Top).reg \notin Registered
                /\ Current(Top).reg \notin Registered'
                /\ Current(Top).reg \in removed
                /\ fired' = fired
        /\ \A id \in removed : id \in removed' /\ id \notin Registered'
        /\ Len(stack') > Len(stack)
             => stack'[Len(stack')].goneAtCall = removed]_vars

\* The first of two listeners, a one-shot one, has thrown out of its one
\* call; the emit is over, and only the second listener is registered.
C24_Witness ==
  /\ Len(stack) = 0
  /\ ret = "threw"
  /\ skipped = {2}
  /\ fired[1] = 1
  /\ removedBy[1] = ByItself
  /\ Registered = {2}

\* C25 (self-removal is exact): the step in which a one-shot entry fires
\* takes at most this entry out of its array, whatever other entries hold
\* the same handler, through on or through another once call: every other
\* entry of every event stays, in the same order, and no entry is ever
\* recorded as removed by the wrapper of another one.
C25_SelfRemovalExact ==
  /\ [](\A id \in RegIds : removedBy[id] # ByOtherWrapper)
  /\ [][\A id \in RegIds :
          fired'[id] # fired[id]
          => /\ \A e \in DOMAIN subscriptions :
                  LET others == SelectSeq(subscriptions[e], LAMBDA l : l.reg # id)
                  IN  IF others = <<>>
                      THEN e \notin DOMAIN subscriptions'
                      ELSE /\ e \in DOMAIN subscriptions'
                           /\ subscriptions'[e] = others
             /\ DOMAIN subscriptions' \subseteq DOMAIN subscriptions
             /\ \A other \in RegIds \ {id} : removedBy'[other] = removedBy[other]]_vars

\* A handler is registered for one event with on and then with once; the
\* one-shot entry has fired and is gone, its handler is running, and the
\* persistent entry for the same handler is the event's array.
C25_Witness ==
  /\ Len(stack) = 1
  /\ Top.running
  /\ Len(Top.invoked) = 2
  /\ Current(Top).reg = 2
  /\ Current(Top).once
  /\ fired[2] = 1
  /\ removedBy[2] = ByItself
  /\ removedBy[1] = NotRemoved
  /\ Top.ev \in DOMAIN subscriptions
  /\ subscriptions[Top.ev] = <<Entry(Current(Top).f, FALSE, 1)>>

\* C26 (only the event named): a call off(e, h) leaves the arrays of all
\* other events as they are and takes at most one position out of e's array,
\* the rest keeping its order (the key goes with the last entry); an emit
\* for e takes its snapshot from e's array, and no entry that stands in the
\* array of another event is in the snapshot or among the entries called.
C26_OnlyTheEvent ==
  /\ [](\A d \in Depths :
          \A e \in DOMAIN subscriptions \ {stack[d].ev} :
            /\ Ids(subscriptions[e]) \cap Ids(stack[d].snapshot) = {}
            /\ Ids(subscriptions[e]) \cap Ids(stack[d].invoked) = {})
  /\ [][/\ \A e \in Events, h \in Handlers :
             CallOff(e, h)
             => /\ \A x \in Events \ {e} :
                     /\ x \in DOMAIN subscriptions' <=> x \in DOMAIN subscriptions
                     /\ x \in DOMAIN subscriptions => subscriptions'[x] = subscriptions[x]
                /\ e \in DOMAIN subscriptions' => e \in DOMAIN subscriptions
                /\ e \in DOMAIN subscriptions
                     => LET listeners == subscriptions[e]
                            after == IF e \in DOMAIN subscriptions'
                                     THEN subscriptions'[e] ELSE <<>>
                        IN  \/ after = listeners
                            \/ \E m \in 1..Len(listeners) : after = Without(listeners, m)
        /\ Len(stack') > Len(stack)
             => /\ stack'[Len(stack')].ev \in DOMAIN subscriptions
                /\ stack'[Len(stack')].snapshot =
                     subscriptions[stack'[Len(stack')].ev]
                /\ stack'[Len(stack')].goneAtCall = removed]_vars

\* While the one listener of e2 was running for an emit of e2, off has
\* removed the entry of another event; the emit has called the listener of
\* e2 only, and e2's array is as it was.
C26_Witness ==
  /\ Len(stack) = 1
  /\ stack[1].ev = "e2"
  /\ stack[1].goneAtCall = {}
  /\ stack[1].added = {}
  /\ Ids(stack[1].snapshot) = {2}
  /\ stack[1].invoked = stack[1].snapshot
  /\ removedBy[1] = ByUser
  /\ DOMAIN subscriptions = {"e2"}
  /\ subscriptions["e2"] = stack[1].snapshot

\* emitter.on(e, h).off(e, h): the registry after on and, at once, off, the
\* on call being the one numbered reg.
roundTrip(subs, e, h, reg) == off(on(subs, e, Entry(h, FALSE, reg)), e, Fn(h))

\* The registry as the program has it: per key, the array of callables.
Callables(subs) ==
  [e \in DOMAIN subs |-> [j \in 1..Len(subs[e]) |-> Stored(subs[e][j])]]

\* C27 as stated (round trip): in every state of the registry, for every
\* event e and handler h, on(e, h) followed at once by off(e, h) gives back
\* the same keys with the same arrays in the same order.
C27_RoundTrip ==
  \A e \in Events, h \in Handlers :
    Callables(roundTrip(subscriptions, e, h, nextReg)) = Callables(subscriptions)

\* C27 (round trip, as the code has it): on(e, h) followed at once by
\* off(e, h) gives back the same keys and leaves the arrays of the other
\* events as they are; e's array is as before when no entry of e held h,
\* directly or as the original of a one-shot wrapper; when some entry did,
\* the first such entry is gone and the new entry for h stands at the end.
C27_RoundTripFirstMatch ==
  \A e \in Events, h \in Handlers :
    LET held == IF e \in DOMAIN subscriptions
                THEN Holding(subscriptions[e], h) ELSE {}
        expected ==
          IF held = {} THEN subscriptions
          ELSE [subscriptions EXCEPT ![e] =
                  Without(@, CHOOSE m \in held : \A k \in held : m <= k)
                    \o <<Entry(h, FALSE, nextReg)>>]
    IN  roundTrip(subscriptions, e, h, nextReg) = expected

\* once(e, h), on(e, h), off(e, h): the off call has found the one-shot
\* wrapper of h first, and the entry that on stored is all that e has.
C27_Witness ==
  /\ Len(stack) = 0
  /\ ret = "this"
  /\ nextReg = 3
  /\ removedBy[1] = ByOriginal
  /\ removedBy[2] = NotRemoved
  /\ \E e \in DOMAIN subscriptions :
       /\ DOMAIN subscriptions = {e}
       /\ Len(subscriptions[e]) = 1
       /\ subscriptions[e][1] = Entry(subscriptions[e][1].f, FALSE, 2)

\* C28 (the two classes agree): given the same on and off calls, with no
\* once call, the EventEmitter and the CustomEventEmitter have the same keys
\* with the same arrays of functions, so that every emit finds the same
\* snapshot in both, calls the same listeners in the same order and returns
\* the same result.
C28_Equivalent == Callables(plain) = Callables(subscriptions)

=============================================================================
